---- MODULE Spec2Model ----
(***************************************************************************)
(* The command surface of beneuro_data (src/src/beneuro_data/cli.py): the  *)
(* four commands validate_session, rename_videos, upload_session and       *)
(* validate_sessions, with the collaborators they call                     *)
(* (validate_raw_session, rename_raw_videos_of_session,                    *)
(* upload_raw_session), whose code lives in other modules of the package   *)
(* and is modelled from the design document.                               *)
(***************************************************************************)
EXTENDS Integers, Sequences, FiniteSets, TLC

VARIABLES
    pc,        \* "idle" at the prompt, "batch" while the loop of
               \* validate_sessions runs, "done" when a command has ended
    cmd,       \* the command being run (or last run) and its arguments
    calls,     \* the calls this command made to its collaborators, in order
    result,    \* how the command ended: running, returned, raised
    output,    \* what this command printed, in order
    listing,   \* validate_sessions: what subject_path.iterdir() yields
    idx,       \* validate_sessions: position of the loop in the listing
    remote     \* the remote mirror of the session: one file per modality

vars == <<pc, cmd, calls, result, output, listing, idx, remote>>

----------------------------------------------------------------------------
(* Bounds and input domains *)

\* longest directory listing of a subject the batch iterates
MaxEntries == 2

Modalities == <<"behavior", "ephys", "videos">>
ModalitySet == {Modalities[i] : i \in 1..Len(Modalities)}

Absent == "absent"
Contents == {"a", "b"}
Levels == {"raw", "processed"}
Subjects == {"M017", "M018"}
Malformed == "?"

\* the include/check flags of a command, one boolean per modality
FlagSets == [ModalitySet -> BOOLEAN]

\* config.LOCAL_PATH and config.REMOTE_PATH
LOCAL_PATH == "LOCAL_PATH"
REMOTE_PATH == "REMOTE_PATH"

----------------------------------------------------------------------------
(* The filesystem as the commands see it.  A node is what the filesystem   *)
(* holds at a path: a directory (a session tree: the subject token its     *)
(* name embeds, and the file of each modality), a regular file, or         *)
(* nothing.                                                                *)

NoFiles == [m \in ModalitySet |-> Absent]

DirNode(tok, files) == [kind |-> "dir", tok |-> tok, files |-> files]
FileNode(tok) == [kind |-> "file", tok |-> tok, files |-> NoFiles]
MissingNode == [kind |-> "missing", tok |-> Malformed, files |-> NoFiles]

\* a session tree with every file present but the one of modality gone
Lacking(gone) == [m \in ModalitySet |-> IF m = gone THEN Absent ELSE "a"]

Tokens == Subjects \cup {Malformed}

\* what a directory listing can hold: complete session trees under any name,
\* a tree of M017 lacking its ephys file, and a regular file
EntryNodes ==
    {DirNode(t, Lacking("none")) : t \in Tokens}
        \cup {DirNode("M017", Lacking("ephys")), FileNode(Malformed)}

\* what a session path given on the command line can resolve to
ArgNodes ==
    {DirNode(t, Lacking(gone)) : t \in Tokens, gone \in ModalitySet \cup {"none"}}
        \cup {FileNode(Malformed), MissingNode}

\* what a session path given to upload can resolve to
UploadNodes ==
    {DirNode("M017", f) : f \in [ModalitySet -> Contents \cup {Absent}]}
        \cup {FileNode(Malformed), MissingNode}

\* a Path value: relative or absolute, its last component (0 for a path
\* given on the command line, i for the i-th entry of a listing), and the
\* node it resolves to
Path(abs, name, node) == [abs |-> abs, name |-> name, node |-> node]

\* Path.absolute(): the same node, addressed from the root
absolute(p) == [p EXCEPT !.abs = TRUE]

\* Path.is_dir() and Path.exists()
is_dir(p) == p.node.kind = "dir"
exists(p) == p.node.kind # "missing"

----------------------------------------------------------------------------
(* Exceptions and results *)

Exc(type, args) == [type |-> type, args |-> args]
NoExc == Exc("", <<>>)

Running == [status |-> "running", value |-> "", exc |-> NoExc]
Returned(v) == [status |-> "returned", value |-> v, exc |-> NoExc]
Raised(e) == [status |-> "raised", value |-> "", exc |-> e]

OnlyRaw == Exc("NotImplementedError", <<"Sorry, only raw data is supported for now.">>)
NothingChecked == Exc("ValueError", <<"At least one data type must be checked.">>)
NotADirectory == Exc("ValueError", <<"Session path must be a directory.">>)
DoesNotExist == Exc("ValueError", <<"Session path does not exist.">>)

----------------------------------------------------------------------------
(* The guards at the head of each command *)

\* the first exception of a sequence of guard outcomes, NoExc when all pass
RECURSIVE FirstError(_)
FirstError(gs) ==
    IF gs = <<>> THEN NoExc
    ELSE IF Head(gs) # NoExc THEN Head(gs)
    ELSE FirstError(Tail(gs))

\* if processing_level != "raw": raise NotImplementedError(...)
level_guard(processing_level) ==
    IF processing_level # "raw" THEN OnlyRaw ELSE NoExc

\* a slip: any() written for all()
modality_guard_any(flags) ==
    IF \E m \in ModalitySet : ~flags[m] THEN NothingChecked ELSE NoExc

\* if all([not check_behavior, not check_ephys, not check_videos]): raise ValueError(...)
modality_guard(flags) ==
    IF \A m \in ModalitySet : ~flags[m] THEN NothingChecked ELSE NoExc

\* a slip: the is_dir() guard left out
path_guard_exists_only(session_path) ==
    IF ~exists(absolute(session_path)) THEN DoesNotExist ELSE NoExc

\* a slip: the two guards in the other order
path_guard_exists_first(session_path) ==
    IF ~exists(absolute(session_path)) THEN DoesNotExist
    ELSE IF ~is_dir(absolute(session_path)) THEN NotADirectory
    ELSE NoExc

\* if not session_path.absolute().is_dir(): raise ...
\* if not session_path.absolute().exists(): raise ...
path_guard(session_path) ==
    IF ~is_dir(absolute(session_path)) THEN NotADirectory
    ELSE IF ~exists(absolute(session_path)) THEN DoesNotExist
    ELSE NoExc

\* a slip: the processing level checked after the modalities
validate_session_guards_level_late(session_path, processing_level, flags) ==
    FirstError(<<modality_guard(flags), level_guard(processing_level),
                 path_guard(session_path)>>)

validate_session_guards(session_path, processing_level, flags) ==
    FirstError(<<level_guard(processing_level), modality_guard(flags),
                 path_guard(session_path)>>)

rename_videos_guards(session_path, processing_level) ==
    FirstError(<<level_guard(processing_level), path_guard(session_path)>>)

upload_session_guards(local_session_path, processing_level, flags) ==
    FirstError(<<level_guard(processing_level), modality_guard(flags)>>)

validate_sessions_guards(processing_level, flags) ==
    FirstError(<<level_guard(processing_level), modality_guard(flags)>>)

----------------------------------------------------------------------------
(* The collaborators.  Their code is in beneuro_data.data_validation,      *)
(* beneuro_data.data_transfer and beneuro_data.video_renaming; they are    *)
(* modelled from sections 4.3, 4.4 and 7 of the design document.           *)

\* section 4.3, steps 1-3: which failure a session has for this subject and
\* this choice of modalities
ValidationFailure(node, subject_name, flags) ==
    IF node.tok = Malformed THEN "MalformedNameError"
    ELSE IF node.tok # subject_name THEN "SubjectMismatchError"
    ELSE IF \E m \in ModalitySet : flags[m] /\ node.files[m] = Absent
         THEN "MissingDataError"
    ELSE "none"

\* the argument tuples an exception can carry: a reason, or nothing at all
ArgTuples(reason) == {<<reason>>, <<>>}

\* validate_raw_session(session_path, subject_name, check_*): the set of
\* ways it can end, NoExc for a normal return
validate_raw_session(session_path, subject_name, flags) ==
    LET failure == ValidationFailure(session_path.node, subject_name, flags) IN
    IF failure = "none" THEN {NoExc}
    ELSE {Exc(failure, a) : a \in ArgTuples("reason")}

\* rename_raw_videos_of_session(session_path, subject_name, verbose): an
\* external collaborator that returns or fails
rename_raw_videos_of_session(session_path, subject_name, verbose) ==
    {NoExc, Exc("ValueError", <<"reason">>)}

\* a slip: a destination that differs is overwritten
copy_policy_overwrite(src, dst) ==
    IF dst = src THEN "skip" ELSE "copy"

\* section 4.4, step 4: what to do with one source file and its destination
copy_policy(src, dst) ==
    IF dst = Absent THEN "copy"
    ELSE IF dst = src THEN "skip"
    ELSE "conflict"

\* section 4.4, steps 2-6, over the modalities from the i-th on: the mirror
\* it leaves, the error that stopped it, and the files it copied and skipped.
\* ioFail names the modality whose copy meets an I/O failure ("none": none).
RECURSIVE Transfer(_, _, _, _, _, _, _)
Transfer(i, files, flags, rem, ioFail, copied, skipped) ==
    IF i > Len(Modalities)
    THEN [remote |-> rem, error |-> "none", failed |-> "", copied |-> copied,
          skipped |-> skipped]
    ELSE LET m == Modalities[i] IN
         IF ~flags[m] \/ files[m] = Absent
         THEN Transfer(i + 1, files, flags, rem, ioFail, copied, skipped)
         ELSE LET what == copy_policy(files[m], rem[m]) IN
              IF what = "skip"
              THEN Transfer(i + 1, files, flags, rem, ioFail, copied,
                            skipped \cup {m})
              ELSE IF what = "conflict"
              THEN [remote |-> rem, error |-> "TransferConflictError", failed |-> m,
                    copied |-> copied, skipped |-> skipped]
              ELSE IF ioFail = m
              THEN [remote |-> rem, error |-> "TransferIOError", failed |-> m,
                    copied |-> copied, skipped |-> skipped]
              ELSE Transfer(i + 1, files, flags,
                            [rem EXCEPT ![m] = files[m]], ioFail,
                            copied \cup {m}, skipped)

\* how the transfer reports its outcome to its caller: success is a returned
\* True; a failure is raised, or returned as False (the contract's
\* "success/failure")
Reports(t) ==
    IF t.error = "none"
    THEN {[error |-> "none", exc |-> NoExc, returned |-> "True", failed |-> "",
           copied |-> t.copied, skipped |-> t.skipped]}
    ELSE {[error |-> t.error, exc |-> Exc(t.error, <<"reason">>), returned |-> "",
           failed |-> t.failed, copied |-> t.copied, skipped |-> t.skipped],
          [error |-> t.error, exc |-> NoExc, returned |-> "False",
           failed |-> t.failed, copied |-> t.copied, skipped |-> t.skipped]}

\* upload_raw_session(local_session_path, subject_name, local_root,
\* remote_root, include_*): the set of ways it can end, each with the mirror
\* it leaves.  A path that is no directory has no files to enumerate; the
\* transfer then copies nothing, or fails on reading it.
upload_raw_session(local_session_path, subject_name, local_root, remote_root, flags, rem) ==
    LET node == local_session_path.node
        runs == {Transfer(1, node.files, flags, rem, io, {}, {}) :
                    io \in ModalitySet \cup {"none"}}
        unreadable == [remote |-> rem, error |-> "TransferIOError",
                       failed |-> "path", copied |-> {}, skipped |-> {}]
        ends == IF node.kind = "dir" THEN runs ELSE runs \cup {unreadable}
    IN  UNION {{[remote |-> t.remote, outcome |-> o] : o \in Reports(t)} : t \in ends}

----------------------------------------------------------------------------
(* Commands, calls and the initial state *)

AllFlags == [m \in ModalitySet |-> TRUE]
NoPath == Path(TRUE, 0, MissingNode)

Cmd(name, path, subject_name, processing_level, flags, verbose) ==
    [name |-> name, path |-> path, subject_name |-> subject_name,
     processing_level |-> processing_level, flags |-> flags, verbose |-> verbose]

\* how a call that returns None or raises ended
Ended(e) ==
    [error |-> IF e = NoExc THEN "none" ELSE e.type, exc |-> e,
     returned |-> IF e = NoExc THEN "None" ELSE "", failed |-> "",
     copied |-> {}, skipped |-> {}]

Call(fn, path, subject_name, flags, verbose, local_root, remote_root, outcome) ==
    [fn |-> fn, path |-> path, subject_name |-> subject_name, flags |-> flags,
     verbose |-> verbose, local_root |-> local_root, remote_root |-> remote_root,
     outcome |-> outcome]

NoCmd == Cmd("none", NoPath, "M017", "raw", AllFlags, FALSE)

EmptyMirror == [m \in ModalitySet |-> Absent]

Init ==
    /\ pc = "idle"
    /\ cmd = NoCmd
    /\ calls = <<>>
    /\ result = Running
    /\ output = <<>>
    /\ listing = <<>>
    /\ idx = 0
    /\ remote = EmptyMirror

----------------------------------------------------------------------------
(* validate_session *)

validate_session ==
    /\ pc = "idle"
    /\ \E abs \in BOOLEAN, node \in ArgNodes, subject_name \in Subjects,
          processing_level \in Levels, flags \in FlagSets :
        LET session_path == Path(abs, 0, node)
            g == validate_session_guards(session_path, processing_level, flags)
        IN  /\ cmd' = Cmd("validate_session", session_path, subject_name,
                          processing_level, flags, FALSE)
            /\ IF g # NoExc
               THEN /\ calls' = <<>>
                    /\ result' = Raised(g)
               ELSE \E e \in validate_raw_session(absolute(session_path),
                                                  subject_name, flags) :
                    /\ calls' = <<Call("validate_raw_session",
                                       absolute(session_path), subject_name, flags,
                                       FALSE, "", "", Ended(e))>>
                    /\ result' = IF e = NoExc THEN Returned("None") ELSE Raised(e)
    /\ pc' = "done"
    /\ UNCHANGED <<output, listing, idx, remote>>

(* rename_videos *)

rename_videos ==
    /\ pc = "idle"
    /\ \E abs \in BOOLEAN, node \in ArgNodes, subject_name \in Subjects,
          processing_level \in Levels, verbose \in BOOLEAN :
        LET session_path == Path(abs, 0, node)
            g == rename_videos_guards(session_path, processing_level)
        IN  /\ cmd' = Cmd("rename_videos", session_path, subject_name,
                          processing_level, AllFlags, verbose)
            /\ IF g # NoExc
               THEN /\ calls' = <<>>
                    /\ result' = Raised(g)
               ELSE \E e \in rename_raw_videos_of_session(absolute(session_path),
                                                          subject_name, verbose) :
                    /\ calls' = <<Call("rename_raw_videos_of_session",
                                       absolute(session_path), subject_name,
                                       AllFlags, verbose, "", "", Ended(e))>>
                    /\ result' = IF e = NoExc THEN Returned("None") ELSE Raised(e)
    /\ pc' = "done"
    /\ UNCHANGED <<output, listing, idx, remote>>

(* upload_session *)

\* a slip: the two roots in the other order
upload_session_args_swapped(local_session_path, subject_name, flags) ==
    [path |-> absolute(local_session_path), subject_name |-> subject_name,
     local_root |-> REMOTE_PATH, remote_root |-> LOCAL_PATH, flags |-> flags]

\* the arguments upload_session hands to upload_raw_session
upload_session_args(local_session_path, subject_name, flags) ==
    [path |-> absolute(local_session_path), subject_name |-> subject_name,
     local_root |-> LOCAL_PATH, remote_root |-> REMOTE_PATH, flags |-> flags]

\* what upload_session makes of the way upload_raw_session ended: an
\* exception propagates, anything it returns is dropped and True returned
upload_session_result(outcome) ==
    IF outcome.exc # NoExc THEN Raised(outcome.exc) ELSE Returned("True")

upload_session ==
    /\ pc = "idle"
    /\ \E abs \in BOOLEAN, node \in UploadNodes, subject_name \in Subjects,
          processing_level \in Levels, flags \in FlagSets :
        LET local_session_path == Path(abs, 0, node)
            g == upload_session_guards(local_session_path, processing_level, flags)
            a == upload_session_args(local_session_path, subject_name, flags)
        IN  /\ cmd' = Cmd("upload_session", local_session_path, subject_name,
                          processing_level, flags, FALSE)
            /\ IF g # NoExc
               THEN /\ calls' = <<>>
                    /\ result' = Raised(g)
                    /\ remote' = remote
               ELSE \E u \in upload_raw_session(a.path, a.subject_name, a.local_root,
                                                a.remote_root, a.flags, remote) :
                    /\ calls' = <<Call("upload_raw_session", a.path, a.subject_name,
                                       a.flags, FALSE, a.local_root, a.remote_root,
                                       u.outcome)>>
                    /\ result' = upload_session_result(u.outcome)
                    /\ remote' = u.remote
    /\ pc' = "done"
    /\ UNCHANGED <<output, listing, idx>>

----------------------------------------------------------------------------
(* validate_sessions: the guards and iterdir(), then one step per entry *)

\* every sequence over S of length at most n
SeqsUpTo(S, n) == UNION {[1..k -> S] : k \in 0..n}

validate_sessions_start ==
    /\ pc = "idle"
    /\ \E subject_name \in Subjects, processing_level \in Levels,
          flags \in FlagSets :
        LET g == validate_sessions_guards(processing_level, flags) IN
        /\ IF g # NoExc
           THEN /\ cmd' = Cmd("validate_sessions", NoPath, subject_name,
                              processing_level, flags, FALSE)
                /\ result' = Raised(g)
                /\ listing' = <<>>
                /\ pc' = "done"
           ELSE \E subject_dir_exists \in BOOLEAN :
                /\ cmd' = Cmd("validate_sessions",
                              Path(TRUE, 0, IF subject_dir_exists
                                         THEN DirNode(subject_name, NoFiles)
                                         ELSE MissingNode),
                              subject_name, processing_level, flags, FALSE)
                /\ IF subject_dir_exists
                   THEN \E l \in SeqsUpTo(EntryNodes, MaxEntries) :
                        /\ listing' = l
                        /\ result' = Running
                        /\ pc' = "batch"
                   ELSE /\ listing' = <<>>
                        /\ result' = Raised(Exc("FileNotFoundError", <<"reason">>))
                        /\ pc' = "done"
    /\ idx' = 1
    /\ UNCHANGED <<calls, output, remote>>

\* print(f"[bold red]Problem with {session_path.name}: {e.args[0]}\n"): the
\* line printed, or the IndexError of e.args[0] on an empty tuple
problem_line(entry, e) ==
    IF Len(e.args) = 0
    THEN [raised |-> Exc("IndexError", <<"tuple index out of range">>),
          line |-> [entry |-> entry, verdict |-> "", text |-> ""]]
    ELSE [raised |-> NoExc,
          line |-> [entry |-> entry, verdict |-> "Problem with", text |-> e.args[1]]]

good_line(entry) == [entry |-> entry, verdict |-> "looking good", text |-> ""]

\* one iteration of: for session_path in subject_path.iterdir()
validate_sessions_step ==
    /\ pc = "batch"
    /\ idx <= Len(listing)
    /\ LET session_path == Path(TRUE, idx, listing[idx]) IN
       IF ~is_dir(session_path)
       THEN /\ idx' = idx + 1
            /\ UNCHANGED <<pc, calls, result, output>>
       ELSE \E e \in validate_raw_session(session_path, cmd.subject_name, cmd.flags) :
            /\ calls' = Append(calls, Call("validate_raw_session", session_path,
                                           cmd.subject_name, cmd.flags, FALSE,
                                           "", "", Ended(e)))
            /\ IF e = NoExc
               THEN /\ output' = Append(output, good_line(session_path.name))
                    /\ idx' = idx + 1
                    /\ UNCHANGED <<pc, result>>
               ELSE LET p == problem_line(session_path.name, e) IN
                    IF p.raised # NoExc
                    THEN /\ result' = Raised(p.raised)
                         /\ pc' = "done"
                         /\ UNCHANGED <<output, idx>>
                    ELSE /\ output' = Append(output, p.line)
                         /\ idx' = idx + 1
                         /\ UNCHANGED <<pc, result>>
    /\ UNCHANGED <<cmd, listing, remote>>

\* the listing is exhausted: the function ends and returns None
validate_sessions_return ==
    /\ pc = "batch"
    /\ idx > Len(listing)
    /\ result' = Returned("None")
    /\ pc' = "done"
    /\ UNCHANGED <<cmd, calls, output, listing, idx, remote>>

----------------------------------------------------------------------------
(* The command's process ends.  Nothing of it remains but the filesystem. *)

exit ==
    /\ pc = "done"
    /\ pc' = "idle"
    /\ cmd' = NoCmd
    /\ calls' = <<>>
    /\ result' = Running
    /\ output' = <<>>
    /\ listing' = <<>>
    /\ idx' = 0
    /\ UNCHANGED remote

----------------------------------------------------------------------------

Next ==
    \/ validate_session
    \/ rename_videos
    \/ upload_session
    \/ validate_sessions_start
    \/ validate_sessions_step
    \/ validate_sessions_return
    \/ exit

Spec == Init /\ [][Next]_vars

----------------------------------------------------------------------------
(* Properties *)

Ran(name) == pc = "done" /\ cmd.name = name
Raw == cmd.processing_level = "raw"
SomeModality == \E m \in ModalitySet : cmd.flags[m]
PathIsDirectory == is_dir(absolute(cmd.path)) /\ exists(absolute(cmd.path))
CallsTo(fn) == {k \in 1..Len(calls) : calls[k].fn = fn}
CallsOn(name) ==
    {k \in CallsTo("validate_raw_session") : calls[k].path.name = name}
Position(m) == CHOOSE i \in 1..Len(Modalities) : Modalities[i] = m

\* validate_sessions got past its guards and listed an existing subject directory
BatchRan == Ran("validate_sessions") /\ Raw /\ SomeModality /\ exists(cmd.path)

\* C1: when validate_sessions (raw, some modality selected) has ended, every
\* directory entry of the listing has been validated exactly once, whatever
\* happened to the entries before it, and no other entry has been validated.
C1_BatchIsolation ==
    BatchRan =>
        /\ \A i \in 1..Len(listing) :
              is_dir(Path(TRUE, i, listing[i])) => Cardinality(CallsOn(i)) = 1
        /\ \A k \in CallsTo("validate_raw_session") : is_dir(calls[k].path)
        /\ CallsTo("validate_raw_session") = 1..Len(calls)

\* C2: validate_sessions (raw, some modality selected, the subject directory
\* there) always returns normally, and every session whose validation raised
\* has a "Problem with" line under its name.
C2_NoExceptionEscapes ==
    BatchRan =>
        /\ result.status = "returned"
        /\ \A k \in 1..Len(calls) :
              calls[k].outcome.exc # NoExc =>
                 \E j \in 1..Len(output) :
                    /\ output[j].entry = calls[k].path.name
                    /\ output[j].verdict = "Problem with"

\* the selected local files of an upload whose remote copy exists and differs
Differing(c, rem) ==
    {m \in ModalitySet :
        /\ c.flags[m]
        /\ c.path.node.files[m] # Absent
        /\ rem[m] # Absent
        /\ rem[m] # c.path.node.files[m]}

\* the selected local files of an upload whose remote copy exists and is equal
Equal(c, rem) ==
    {m \in ModalitySet :
        /\ c.flags[m]
        /\ c.path.node.files[m] # Absent
        /\ rem[m] = c.path.node.files[m]}

\* C3: no step changes a file that exists in the remote mirror; a run of
\* upload_raw_session never gets past a selected file whose remote copy
\* differs: it ends in failure, with a conflict error when it stops at that
\* file, and a conflict error is raised for such a file only; a selected file
\* whose remote copy is equal is never copied, and is skipped by every run
\* that succeeds.
C3_RemoteNeverOverwritten ==
    [][ /\ \A m \in ModalitySet : remote[m] # Absent => remote'[m] = remote[m]
        /\ (pc' = "done" /\ cmd'.name = "upload_session" /\ calls' # <<>>) =>
             LET c == calls'[1]
                 o == calls'[1].outcome
             IN  /\ \A m \in Differing(c, remote) :
                       /\ o.error # "none"
                       /\ o.failed = m => o.error = "TransferConflictError"
                       /\ o.failed \in ModalitySet =>
                             Position(o.failed) <= Position(m)
                 /\ o.error = "TransferConflictError" =>
                       o.failed \in Differing(c, remote)
                 /\ \A m \in Equal(c, remote) :
                       /\ m \notin o.copied
                       /\ o.error = "none" => m \in o.skipped
      ]_vars

\* C3 witness: an upload met a remote file that differs and ended in a conflict
C3_Witness ==
    /\ Ran("upload_session")
    /\ calls # <<>>
    /\ calls[1].outcome.error = "TransferConflictError"
    /\ calls[1].outcome.copied # {}

\* C4: a command given a processing level other than "raw" ends with the
\* unimplemented-feature error whatever its other arguments are, calls none of
\* its collaborators and lists no directory; the loop of validate_sessions
\* runs for "raw" only.
C4_UnsupportedLevelFirst ==
    /\ (pc = "done" /\ ~Raw) =>
          /\ result = Raised(OnlyRaw)
          /\ calls = <<>>
          /\ listing = <<>>
    /\ pc = "batch" => Raw

\* C4 witness: validate_session with an unsupported level, no modality and a
\* path that does not exist: every guard would fire
C4_Witness ==
    /\ Ran("validate_session")
    /\ ~Raw
    /\ ~SomeModality
    /\ ~exists(cmd.path)

\* C5: validate_session, upload_session and validate_sessions at level raw:
\* with no modality selected the command raises the "at least one data type"
\* error and calls no collaborator; with one selected it never raises it.
C5_EmptySelectionIsError ==
    /\ (pc = "done" /\ Raw
          /\ cmd.name \in {"validate_session", "upload_session", "validate_sessions"}) =>
          IF SomeModality
          THEN result.exc # NothingChecked
          ELSE /\ result = Raised(NothingChecked)
               /\ calls = <<>>
               /\ listing = <<>>
    /\ pc = "batch" => SomeModality

\* C5 witness: upload_session at level raw with nothing selected
C5_Witness == Ran("upload_session") /\ Raw /\ ~SomeModality

UsageErrors == {"ValueError", "NotImplementedError"}

\* C6: validate_session and rename_videos call their core operation only on
\* an absolute path that exists and is a directory; given any other path they
\* raise a usage error and call nothing.
C6_CorePrecondition ==
    (pc = "done" /\ cmd.name \in {"validate_session", "rename_videos"}) =>
        /\ \A k \in 1..Len(calls) :
              /\ calls[k].path.abs
              /\ calls[k].path = absolute(cmd.path)
              /\ is_dir(calls[k].path)
              /\ exists(calls[k].path)
        /\ ~PathIsDirectory =>
              /\ result.status = "raised"
              /\ result.exc.type \in UsageErrors
              /\ calls = <<>>

\* C6 witness: rename_videos at level raw on a regular file
C6_Witness ==
    /\ Ran("rename_videos")
    /\ Raw
    /\ cmd.path.node.kind = "file"
    /\ ~cmd.path.abs

\* C7: upload_session (raw, some modality included) on a path that does not
\* exist or is no directory raises a usage error and never starts
\* upload_raw_session.
C7_UploadPathChecked ==
    (Ran("upload_session") /\ Raw /\ SomeModality /\ ~PathIsDirectory) =>
        /\ result.status = "raised"
        /\ result.exc.type \in UsageErrors
        /\ calls = <<>>

\* C8: upload_session returns True only if upload_raw_session was called and
\* reported no failure.
C8_SuccessOnlyIfTransferred ==
    (Ran("upload_session") /\ result = Returned("True")) =>
        /\ calls # <<>>
        /\ calls[1].outcome.error = "none"

\* C9: upload_session never calls validate_raw_session, and calls
\* upload_raw_session at most once, with the absolute session path, the
\* caller's subject name, config.LOCAL_PATH, config.REMOTE_PATH and the three
\* include flags as given.
C9_TrustBoundary ==
    cmd.name = "upload_session" =>
        /\ Len(calls) <= 1
        /\ \A k \in 1..Len(calls) :
              /\ calls[k].fn = "upload_raw_session"
              /\ calls[k].path = absolute(cmd.path)
              /\ calls[k].subject_name = cmd.subject_name
              /\ calls[k].local_root = "LOCAL_PATH"
              /\ calls[k].remote_root = "REMOTE_PATH"
              /\ calls[k].flags = cmd.flags

\* C9 witness: an upload of a malformed session tree (a modality absent) for
\* subject M018 went through to upload_raw_session
C9_Witness ==
    /\ Ran("upload_session")
    /\ Len(calls) = 1
    /\ cmd.subject_name = "M018"
    /\ \E m \in ModalitySet : ~cmd.flags[m]
    /\ \E m \in ModalitySet : cmd.flags[m] /\ cmd.path.node.files[m] = Absent

\* C10: validate_session and rename_videos never raise "Session path does not
\* exist."; when the path guards are reached, a path that does not exist and a
\* path that is a regular file both get "Session path must be a directory.".
C10_DoesNotExistNeverRaised ==
    (pc = "done" /\ cmd.name \in {"validate_session", "rename_videos"}) =>
        /\ result.exc # DoesNotExist
        /\ (Raw /\ (cmd.name = "validate_session" => SomeModality)
              /\ ~PathIsDirectory) => result = Raised(NotADirectory)

\* C10 witness: validate_session reached its path guards with a path that
\* does not exist
C10_Witness ==
    /\ Ran("validate_session")
    /\ Raw
    /\ SomeModality
    /\ ~exists(absolute(cmd.path))
    /\ result = Raised(NotADirectory)

====
